---- MODULE Spec2Model ----
(***************************************************************************)
(* Model of the ProGear sales-agent chat page (component Home) and of the  *)
(* session state it consumes from next-auth.                               *)
(*                                                                         *)
(* Text is a sequence of one-character strings, so that String.trim() is   *)
(* computed and not assumed.  A JavaScript value that may be undefined is  *)
(* a record [type, val].                                                   *)
(***************************************************************************)
EXTENDS Integers, Sequences, FiniteSets, TLC

\* Number of accepted submits explored in one run of the page.
MaxSubmits == 2

\* Longest step sequence handed to AgentFlowCard.
MaxSteps == 3

----------------------------------------------------------------------------
(* Values *)

WhiteSpace == {" "}

\* Drafts the user can put into the text input (e.target.value).
Drafts ==
    { <<>>,
      <<" ", " ">>,
      <<"a", " ", "b">>,
      <<" ", "a", " ", "b", " ">> }

RECURSIVE trimStart(_)
trimStart(s) ==
    IF s = <<>> THEN s
    ELSE IF Head(s) \in WhiteSpace THEN trimStart(Tail(s)) ELSE s

RECURSIVE trimEnd(_)
trimEnd(s) ==
    IF s = <<>> THEN s
    ELSE IF s[Len(s)] \in WhiteSpace THEN trimEnd(SubSeq(s, 1, Len(s) - 1)) ELSE s

\* String.prototype.trim
trim(s) == trimEnd(trimStart(s))

Str(s) == [type |-> "string", val |-> s]
Undefined == [type |-> "undefined", val |-> <<>>]

\* The text of the catch branch.
FallbackText ==
    << "S","o","r","r","y",","," ","I"," ","e","n","c","o","u","n","t","e","r","e","d",
       " ","a","n"," ","e","r","r","o","r","."," ","P","l","e","a","s","e"," ","t","r","y",
       " ","a","g","a","i","n","." >>

\* session?.idToken: a token, or nothing.
NoToken == "undefined"
IdTokens == {"tokA"}

\* What useSession() can return: a token only comes with an authenticated session.
Sessions ==
    { [status |-> "loading", idToken |-> NoToken],
      [status |-> "unauthenticated", idToken |-> NoToken],
      [status |-> "authenticated", idToken |-> NoToken] }
    \cup { [status |-> "authenticated", idToken |-> t] : t \in IdTokens }

\* session?.user: the profile of an authenticated session, or nothing.
NoUser == [email |-> "undefined", name |-> "undefined", sub |-> "undefined"]
Users ==
    { [email |-> "sarah.sales@progear.demo", name |-> "Sarah Sales", sub |-> "sub-sarah"],
      [email |-> "mike.manager@progear.demo", name |-> "Mike Manager", sub |-> "sub-mike"] }

\* What the backend can answer once fetch has resolved.
HttpStatuses == {"ok", "error"}
ReplyTexts == { <<"h", "i">> }
Bodies ==
    { [kind |-> "invalid", content |-> Undefined],      \* not JSON
      [kind |-> "null", content |-> Undefined],         \* the JSON value null
      [kind |-> "object", content |-> Undefined] }      \* an object without content
    \cup { [kind |-> "object", content |-> Str(c)] : c \in ReplyTexts }

NoResponse == [status |-> "none", body |-> [kind |-> "none", content |-> Undefined]]

\* The entry of a call of fetch whose handler has run to its end.
Settled == [message |-> <<>>, token |-> NoToken, pc |-> "done", response |-> NoResponse]

\* Nothing rendered yet.
NotRendered == [rendered |-> FALSE]

----------------------------------------------------------------------------
(* AgentFlowCard: its input *)

SALES == <<"s", "a", "l", "e", "s">>
INVENTORY == <<"i", "n", "v", "e", "n", "t", "o", "r", "y">>
CUSTOMER == <<"c", "u", "s", "t", "o", "m", "e", "r">>
PRICING == <<"p", "r", "i", "c", "i", "n", "g">>

\* ['sales', 'inventory', 'customer', 'pricing'], the order of display
AgentOrder == <<SALES, INVENTORY, CUSTOMER, PRICING>>
Agents == { AgentOrder[k] : k \in DOMAIN AgentOrder }

agentColors ==
    [a \in Agents |->
        IF a = SALES THEN "#3b82f6"
        ELSE IF a = INVENTORY THEN "#10b981"
        ELSE IF a = CUSTOMER THEN "#8b5cf6"
        ELSE "#f59e0b"]

agentIcons ==
    [a \in Agents |->
        IF a = SALES THEN "S"
        ELSE IF a = INVENTORY THEN "I"
        ELSE IF a = CUSTOMER THEN "C"
        ELSE "P"]

AGENT == <<"a", "g", "e", "n", "t">>
ROUTER == <<"r", "o", "u", "t", "e", "r">>
GENERATE_RESPONSE ==
    <<"g", "e", "n", "e", "r", "a", "t", "e", "_", "r", "e", "s", "p", "o", "n", "s", "e">>
\* Steps that are no stage of the card: one without and one with "agent" in its name.
EXCHANGE_TOKEN == <<"e", "x", "c", "h", "a", "n", "g", "e", "_", "t", "o", "k", "e", "n">>
AGENT_SELECTION == <<"a", "g", "e", "n", "t", "_", "s", "e", "l", "e", "c", "t", "i", "o", "n">>

\* `${agent}_agent`
agentStepName(agent) == agent \o <<"_">> \o AGENT

\* agents?: string[]
NoAgents == [defined |-> FALSE, list |-> <<>>]
AgentList(l) == [defined |-> TRUE, list |-> l]

Step(name, st, ag) == [step |-> name, status |-> st, agents |-> ag]

\* status: string. The four statuses of the data model, the empty string and another string.
Statuses == {"pending", "completed", "denied", "inactive"}
StatusStrings == Statuses \cup {"", "running"}

\* The steps an orchestrator may put into a sequence.
StepChoices ==
    { Step(ROUTER, "completed", ag) :
        ag \in { NoAgents, AgentList(<<>>), AgentList(<<SALES, INVENTORY>>),
                 AgentList(<<PRICING>>) } }
    \cup { Step(agentStepName(SALES), st, NoAgents) : st \in StatusStrings }
    \cup { Step(agentStepName(INVENTORY), st, NoAgents) : st \in {"completed", "denied"} }
    \cup { Step(agentStepName(PRICING), "pending", NoAgents) }
    \cup { Step(GENERATE_RESPONSE, st, NoAgents) : st \in {"completed", "pending"} }
    \cup { Step(EXCHANGE_TOKEN, "completed", NoAgents),
           Step(EXCHANGE_TOKEN, "denied", AgentList(<<PRICING>>)),
           Step(AGENT_SELECTION, "completed", NoAgents) }

StepSeqs == UNION { [1..n -> StepChoices] : n \in 0..MaxSteps }

AllProps == [steps : StepSeqs, isLoading : BOOLEAN]

----------------------------------------------------------------------------
(* AgentFlowCard: the render *)

\* String.prototype.includes
includes(str, sub) ==
    \E i \in 1..(Len(str) - Len(sub) + 1) : SubSeq(str, i, i + Len(sub) - 1) = sub

\* Variant: the index of the last element that passes.
findLastIndex(passes) ==
    IF \E i \in DOMAIN passes : passes[i]
    THEN CHOOSE i \in DOMAIN passes : passes[i] /\ \A j \in (i + 1)..Len(passes) : ~passes[j]
    ELSE 0

\* Array.prototype.find, as the index of the first element that passes, 0 for undefined;
\* passes[i] is the callback's result on element i.
findIndex(passes) ==
    IF \E i \in DOMAIN passes : passes[i]
    THEN CHOOSE i \in DOMAIN passes : passes[i] /\ \A j \in 1..(i - 1) : ~passes[j]
    ELSE 0

\* steps.filter(s => s.step.includes('agent') || s.step === 'router' || s.step === 'generate_response')
\* The result is read by nothing in the render.
isAgentStep(s) == includes(s.step, AGENT) \/ s.step = ROUTER \/ s.step = GENERATE_RESPONSE
agentSteps(steps) == SelectSeq(steps, isAgentStep)

\* Variant: the first step with an agents array, whatever its name.
routingStepAnyName(steps) ==
    LET withAgents(s) == s.agents.defined
    IN  findIndex([i \in DOMAIN steps |-> withAgents(steps[i])])

\* Variant: a router step counts only with a non-empty agents array.
routingStepNonEmpty(steps) ==
    LET withAgents(s) == s.step = ROUTER /\ s.agents.defined /\ s.agents.list # <<>>
    IN  findIndex([i \in DOMAIN steps |-> withAgents(steps[i])])

\* steps.find(s => s.step === 'router' && s.agents): an array, also an empty one, is truthy.
routingStep(steps) ==
    LET withAgents(s) == s.step = ROUTER /\ s.agents.defined
    IN  findIndex([i \in DOMAIN steps |-> withAgents(steps[i])])

\* routingStep?.agents || []
involvedAgents(steps) ==
    IF routingStep(steps) = 0 THEN <<>> ELSE steps[routingStep(steps)].agents.list

\* Variant: involvement is not consulted.
agentStatusNoInvolved(steps, agent) ==
    LET named(s) == s.step = agentStepName(agent)
        agentStep == findIndex([i \in DOMAIN steps |-> named(steps[i])])
    IN  IF agentStep # 0 /\ steps[agentStep].status # ""
        THEN steps[agentStep].status
        ELSE "inactive"

\* const status = agentStep?.status || (isInvolved ? 'pending' : 'inactive')
\* The empty string is falsy.
agentStatus(steps, agent) ==
    LET isInvolved == \E k \in DOMAIN involvedAgents(steps) : involvedAgents(steps)[k] = agent
        named(s) == s.step = agentStepName(agent)
        agentStep == findIndex([i \in DOMAIN steps |-> named(steps[i])])
    IN  IF agentStep # 0 /\ steps[agentStep].status # ""
        THEN steps[agentStep].status
        ELSE IF isInvolved THEN "pending" ELSE "inactive"

MutedClass == "bg-gray-200 text-gray-400"

\* className of the participant's box
agentClass(st) ==
    IF st = "completed" THEN "text-white shadow-lg"
    ELSE IF st = "denied" THEN "text-white opacity-75"
    ELSE IF st = "pending" THEN "text-white animate-pulse"
    ELSE MutedClass

NoColor == "undefined"

\* style={{ backgroundColor: status !== 'inactive' ? agentColors[agent] : undefined }}
agentBackground(st, agent) == IF st # "inactive" THEN agentColors[agent] ELSE NoColor

\* Variant: the participant's letter is rendered under every status.
agentGlyphsLetterAlways(st, agent) ==
    (IF st = "completed" THEN <<"CheckCircle">> ELSE <<>>)
    \o (IF st = "denied" THEN <<"XCircle">> ELSE <<>>)
    \o (IF st = "pending" THEN <<"Clock">> ELSE <<>>)
    \o <<agentIcons[agent]>>

\* The children of the box: each of the four is rendered under its own test.
agentGlyphs(st, agent) ==
    (IF st = "completed" THEN <<"CheckCircle">> ELSE <<>>)
    \o (IF st = "denied" THEN <<"XCircle">> ELSE <<>>)
    \o (IF st = "pending" THEN <<"Clock">> ELSE <<>>)
    \o (IF st = "inactive" THEN <<agentIcons[agent]>> ELSE <<>>)

CompletedClass == "bg-success-green text-white"

\* Variant: any generate_response step completes the stage.
responseClassAnyStatus(steps) ==
    IF \E i \in DOMAIN steps : steps[i].step = GENERATE_RESPONSE
    THEN CompletedClass ELSE MutedClass

\* steps.some(s => s.step === 'generate_response' && s.status === 'completed') ? ... : ...
responseClass(steps) ==
    IF \E i \in DOMAIN steps :
          steps[i].step = GENERATE_RESPONSE /\ steps[i].status = "completed"
    THEN CompletedClass ELSE MutedClass

agentBox(steps, agent) ==
    LET st == agentStatus(steps, agent)
    IN  [status |-> st,
         class |-> agentClass(st),
         backgroundColor |-> agentBackground(st, agent),
         glyphs |-> agentGlyphs(st, agent)]

\* What the component returns for its props.
AgentFlowCard(p) ==
    [rendered |-> TRUE,
     involvedAgents |-> involvedAgents(p.steps),
     agents |-> [a \in Agents |-> agentBox(p.steps, a)],
     response |-> responseClass(p.steps),
     processing |-> p.isLoading]

----------------------------------------------------------------------------
(* The architecture page and the guide: the sample access data *)

\* The file holds the page twice (lines 1-767 and 769-1565), each with four sections.
AUDIT_TRAIL == "Audit Trail (Okta Syslog)"
END_TO_END == "End-to-End Architecture"
TOKEN_COMPARISON == "Token Comparison: Role-Based Access"
ID_JAG_FLOW == "ID-JAG Token Exchange Flow"
SAME_AGENT == "Same Agent, Different Permissions"

Section(pg, t) == [page |-> pg, title |-> t]

Sections ==
    { Section("first", t) : t \in {AUDIT_TRAIL, END_TO_END, TOKEN_COMPARISON, ID_JAG_FLOW} }
    \cup { Section("second", t) : t \in {AUDIT_TRAIL, END_TO_END, ID_JAG_FLOW, SAME_AGENT} }

\* defaultOpen of each CollapsibleSection
defaultOpen == [sec \in Sections |-> sec # Section("first", ID_JAG_FLOW)]

\* The sections whose children are the two token cards.
TokenSections == { Section("first", TOKEN_COMPARISON), Section("second", SAME_AGENT) }

ScopeOrder == <<"inventory:read", "inventory:write", "pricing:read", "pricing:margin">>
Scopes == { ScopeOrder[k] : k \in DOMAIN ScopeOrder }

\* A card of the comparison: name, role, groups, and per scope whether it is drawn granted
\* (green, CheckCircle) or not (red, XCircle).
SarahCard ==
    [name |-> "Sarah Sales", role |-> "Sales Representative",
     groups |-> <<"ProGear-Sales">>,
     sub |-> "sarah.sales@progear.demo",
     granted |-> [sc \in Scopes |-> sc \in {"inventory:read", "pricing:read"}],
     summary |-> "Read-only access"]

MikeCard ==
    [name |-> "Mike Manager", role |-> "Sales Manager",
     groups |-> <<"ProGear-Sales", "ProGear-Managers">>,
     sub |-> "mike.manager@progear.demo",
     granted |-> [sc \in Scopes |-> TRUE],
     summary |-> "Full read/write access"]

\* The children of a token section, left to right.
TokenCards == <<SarahCard, MikeCard>>

\* What is displayed of the cards: those of the token sections that are open.
shownCards(open) ==
    { [section |-> sec, card |-> TokenCards[k]] :
        sec \in { t \in TokenSections : open[t] }, k \in DOMAIN TokenCards }

\* The guide on Mike Manager: his group, and per data domain whether access is granted.
Domains == {"sales", "inventory", "customer", "pricing"}
GuideMike ==
    [name |-> "Mike Manager", job |-> "Warehouse Manager",
     group |-> "ProGear-Warehouse",
     access |-> [d \in Domains |-> d = "inventory"]]

\* The data domain a scope belongs to: the part of its name before the colon.
scopeDomain ==
    [sc \in Scopes |-> IF sc \in {"inventory:read", "inventory:write"}
                       THEN "inventory" ELSE "pricing"]

----------------------------------------------------------------------------
(* State *)

VARIABLES
    status,         \* useSession().status
    idToken,        \* session?.idToken
    message,        \* useState('') : the draft
    chatMessages,   \* useState([]) : the history
    isLoading,      \* useState(false) : pending
    requests,       \* one entry per call of fetch, in the order of issue
    origin,         \* origin[k] = index in requests of the submit that appended chatMessages[k]
    unhandled,      \* a promise of handleSendMessage was rejected
    last,           \* what the last event did to the component's state
    mounted,        \* the Home component is mounted
    props,          \* the props AgentFlowCard is called with
    view,           \* what AgentFlowCard rendered from them
    isOpen,         \* useState(defaultOpen) of each CollapsibleSection
    user            \* session?.user (followed in SpecProfile only)

vars == <<status, idToken, message, chatMessages, isLoading, requests, origin, unhandled, last,
          mounted, props, view, isOpen, user>>

\* The state outside the chat controller's own.
rest == <<mounted, props, view, isOpen, user>>

session == <<status, idToken>>

Init ==
    /\ status = "loading"
    /\ idToken = NoToken
    /\ message = <<>>
    /\ chatMessages = <<>>
    /\ isLoading = FALSE
    /\ requests = <<>>
    /\ origin = <<>>
    /\ unhandled = FALSE
    /\ last = "none"
    /\ mounted = TRUE
    /\ props = [steps |-> <<>>, isLoading |-> FALSE]
    /\ view = NotRendered
    /\ isOpen = defaultOpen
    /\ user = NoUser

----------------------------------------------------------------------------
(* Rendered controls *)

isAuthenticated == status = "authenticated"

\* Variant: the input is not disabled while a request is pending.
inputDisabledAuthOnly == ~isAuthenticated

\* {session?.user?.email} in the header of an authenticated session
shownEmail == IF isAuthenticated THEN user.email ELSE "undefined"

\* <input disabled={!isAuthenticated || isLoading}>
inputDisabled == ~isAuthenticated \/ isLoading

\* Variant: the button is disabled for a blank draft only.
buttonDisabledBlankOnly == trim(message) = <<>>

\* <button disabled={!isAuthenticated || isLoading || !message.trim()}>
buttonDisabled == ~isAuthenticated \/ isLoading \/ trim(message) = <<>>

\* {chatMessages.length === 0 ? <placeholder> : <> ... {isLoading && <div>Thinking...</div>} </>}
thinkingShown == Len(chatMessages) # 0 /\ isLoading

----------------------------------------------------------------------------
(* handleSendMessage, up to its first await *)

\* Variants of the guard: the credential not tested; the draft tested without trim().
rejectsBlankOnly(msg, tok) == trim(msg) = <<>>
rejectsUntrimmed(msg, tok) == msg = <<>> \/ tok = NoToken

\* Variant: the handler itself refuses a submit while a request is pending.
rejectsWhilePending(msg, tok) == trim(msg) = <<>> \/ tok = NoToken \/ isLoading

\* Variant: the guard also reads the profile of the session.
rejectsByProfile(msg, tok) ==
    trim(msg) = <<>> \/ tok = NoToken \/ user.email # "sarah.sales@progear.demo"

\* if (!message.trim() || !session?.idToken) return;
rejects(msg, tok) == trim(msg) = <<>> \/ tok = NoToken

userMessage(msg) == [role |-> "user", content |-> Str(trim(msg))]

\* Variant: the user message is not appended before fetch is called.
submitSyncNoAppend(msg, tok, msgs, loading) ==
    IF rejects(msg, tok)
    THEN [accepted |-> FALSE, message |-> msg, chatMessages |-> msgs,
          isLoading |-> loading, fetch |-> <<>>]
    ELSE [accepted |-> TRUE, message |-> <<>>,
          chatMessages |-> msgs,
          isLoading |-> TRUE,
          fetch |-> << [message |-> trim(msg), token |-> tok] >>]

\* Variant: the draft is cleared before the guard.
submitSyncClearFirst(msg, tok, msgs, loading) ==
    IF rejects(msg, tok)
    THEN [accepted |-> FALSE, message |-> <<>>, chatMessages |-> msgs,
          isLoading |-> loading, fetch |-> <<>>]
    ELSE [accepted |-> TRUE, message |-> <<>>,
          chatMessages |-> Append(msgs, [role |-> "user", content |-> Str(trim(msg))]),
          isLoading |-> TRUE,
          fetch |-> << [message |-> trim(msg), token |-> tok] >>]

\* Variant: fetch is called a second time (a retry).
submitSyncRetry(msg, tok, msgs, loading) ==
    IF rejects(msg, tok)
    THEN [accepted |-> FALSE, message |-> msg, chatMessages |-> msgs,
          isLoading |-> loading, fetch |-> <<>>]
    ELSE [accepted |-> TRUE, message |-> <<>>,
          chatMessages |-> Append(msgs, [role |-> "user", content |-> Str(trim(msg))]),
          isLoading |-> TRUE,
          fetch |-> << [message |-> trim(msg), token |-> tok],
                       [message |-> trim(msg), token |-> tok] >>]

\* Variant: the request body carries the draft as typed, not userMessage.
submitSyncRawBody(msg, tok, msgs, loading) ==
    IF rejects(msg, tok)
    THEN [accepted |-> FALSE, message |-> msg, chatMessages |-> msgs,
          isLoading |-> loading, fetch |-> <<>>]
    ELSE [accepted |-> TRUE, message |-> <<>>,
          chatMessages |-> Append(msgs, [role |-> "user", content |-> Str(trim(msg))]),
          isLoading |-> TRUE,
          fetch |-> << [message |-> msg, token |-> tok] >>]

\* The synchronous part of the handler: the state it leaves and the calls of fetch it makes.
\* JavaScript runs it to the first await without interleaving, so it is one step; the
\* three setState calls precede the call of fetch in it.
submitSync(msg, tok, msgs, loading) ==
    IF rejects(msg, tok)
    THEN [accepted |-> FALSE, message |-> msg, chatMessages |-> msgs,
          isLoading |-> loading, fetch |-> <<>>]
    ELSE [accepted |-> TRUE, message |-> <<>>,
          chatMessages |-> Append(msgs, userMessage(msg)),
          isLoading |-> TRUE,
          fetch |-> << [message |-> trim(msg), token |-> tok] >>]

handleSendMessage ==
    LET r == submitSync(message, idToken, chatMessages, isLoading)
        id == Len(requests) + 1
    IN  /\ Len(requests) + Len(r.fetch) <= MaxSubmits
        /\ message' = r.message
        /\ chatMessages' = r.chatMessages
        /\ isLoading' = r.isLoading
        /\ requests' = requests \o
               [k \in 1..Len(r.fetch) |->
                   [message |-> r.fetch[k].message, token |-> r.fetch[k].token,
                    pc |-> "fetch", response |-> NoResponse]]
        /\ origin' = origin \o [k \in 1..(Len(r.chatMessages) - Len(chatMessages)) |-> id]
        /\ last' = IF r.accepted THEN "accepted" ELSE "rejected"
        /\ UNCHANGED <<status, idToken, unhandled, rest>>

----------------------------------------------------------------------------
(* handleSendMessage, after its awaits *)

Thrown == [thrown |-> TRUE, content |-> Undefined]

\* Variant: a body without a content field is treated as an error.
tryBodyValidated(resp) ==
    IF resp.body.kind # "object" \/ resp.body.content = Undefined THEN Thrown
    ELSE [thrown |-> FALSE, content |-> resp.body.content]

\* const data = await response.json(); ... data.content
\* json() rejects on a body that is not JSON; reading .content of null throws.
\* The HTTP status is not read.
tryBody(resp) ==
    IF resp.body.kind = "invalid" THEN Thrown
    ELSE IF resp.body.kind = "null" THEN Thrown
    ELSE [thrown |-> FALSE, content |-> resp.body.content]

assistantMessage(content) == [role |-> "assistant", content |-> content]

\* Variant: setIsLoading(false) in the catch branch only, no finally.
settleNoFinally(outcome, msgs, loading) ==
    [chatMessages |->
        Append(msgs, [role |-> "assistant",
                      content |-> IF outcome.thrown THEN Str(FallbackText)
                                  ELSE outcome.content]),
     isLoading |-> IF outcome.thrown THEN FALSE ELSE loading,
     unhandled |-> FALSE]

\* Variant: the catch branch logs the error and appends nothing.
settleSwallow(outcome, msgs, loading) ==
    [chatMessages |->
        IF outcome.thrown THEN msgs
        ELSE Append(msgs, [role |-> "assistant", content |-> outcome.content]),
     isLoading |-> FALSE,
     unhandled |-> FALSE]

\* Variant: try/finally without catch, the error leaves the handler.
settleNoCatch(outcome, msgs, loading) ==
    [chatMessages |->
        IF outcome.thrown THEN msgs
        ELSE Append(msgs, [role |-> "assistant", content |-> outcome.content]),
     isLoading |-> FALSE,
     unhandled |-> outcome.thrown]

\* Variant: the new message is put in front of the history.
settlePrepend(outcome, msgs, loading) ==
    [chatMessages |->
        << [role |-> "assistant",
            content |-> IF outcome.thrown THEN Str(FallbackText) ELSE outcome.content] >>
        \o msgs,
     isLoading |-> FALSE,
     unhandled |-> FALSE]

\* try { ... setChatMessages(reply) } catch { setChatMessages(fallback) } finally { setIsLoading(false) }
\* chatMessages and isLoading are what the setState calls of the handler make them.
settle(outcome, msgs, loading) ==
    [chatMessages |->
        Append(msgs, assistantMessage(IF outcome.thrown THEN Str(FallbackText)
                                      ELSE outcome.content)),
     isLoading |-> FALSE,
     unhandled |-> FALSE]

\* Variant: the continuation reads the session again and drops its result once signed out.
finishIfSignedIn(i, outcome) ==
    IF isAuthenticated /\ idToken # NoToken
    THEN LET r == settle(outcome, chatMessages, isLoading)
         IN  /\ chatMessages' = r.chatMessages
             /\ isLoading' = r.isLoading
             /\ unhandled' = (unhandled \/ r.unhandled)
             /\ origin' = origin \o [k \in 1..(Len(r.chatMessages) - Len(chatMessages)) |-> i]
             /\ requests' = [requests EXCEPT ![i] = Settled]
             /\ last' = IF outcome.thrown THEN "failed" ELSE "replied"
             /\ UNCHANGED <<status, idToken, message, rest>>
    ELSE /\ requests' = [requests EXCEPT ![i] = Settled]
         /\ last' = "none"
         /\ UNCHANGED <<status, idToken, message, chatMessages, isLoading, origin,
                        unhandled, rest>>

finish(i, outcome) ==
    LET r == settle(outcome, chatMessages, isLoading)
    IN  /\ chatMessages' = r.chatMessages
        /\ isLoading' = r.isLoading
        /\ unhandled' = (unhandled \/ r.unhandled)
        /\ origin' = origin \o [k \in 1..(Len(r.chatMessages) - Len(chatMessages)) |-> i]
        /\ requests' = [requests EXCEPT ![i] = Settled]
        /\ last' = IF outcome.thrown THEN "failed" ELSE "replied"
        /\ UNCHANGED <<status, idToken, message, rest>>

\* await fetch(...) resolves: a response has arrived, whatever its status.
fetchResolves(i) ==
    /\ requests[i].pc = "fetch"
    /\ \E st \in HttpStatuses, b \in Bodies :
          requests' = [requests EXCEPT ![i].pc = "json",
                                       ![i].response = [status |-> st, body |-> b]]
    /\ UNCHANGED <<status, idToken, message, chatMessages, isLoading, origin, unhandled, last, rest>>

\* await fetch(...) rejects: network error.
fetchRejects(i) ==
    /\ requests[i].pc = "fetch"
    /\ finish(i, Thrown)

\* await response.json() settles.
jsonSettles(i) ==
    /\ requests[i].pc = "json"
    /\ finish(i, tryBody(requests[i].response))

----------------------------------------------------------------------------
(* The other events *)

\* onChange={(e) => setMessage(e.target.value)}
onChange(d) ==
    /\ message' = d
    /\ last' = "none"
    /\ UNCHANGED <<status, idToken, chatMessages, isLoading, requests, origin, unhandled, rest>>

\* useSession() returns a new value; the status never goes back to loading.
sessionChanges ==
    /\ \E s \in Sessions :
          /\ s.status # "loading"
          /\ <<s.status, s.idToken>> # session
          /\ status' = s.status
          /\ idToken' = s.idToken
    /\ last' = "none"
    /\ UNCHANGED <<message, chatMessages, isLoading, requests, origin, unhandled, rest>>

\* useSession() returns a new value, its profile included: a profile comes with an
\* authenticated session only.
sessionUpdates ==
    /\ \E s \in Sessions, u \in Users \cup {NoUser} :
          /\ s.status # "loading"
          /\ (s.status = "authenticated") <=> (u # NoUser)
          /\ <<s.status, s.idToken, u>> # <<status, idToken, user>>
          /\ status' = s.status
          /\ idToken' = s.idToken
          /\ user' = u
          /\ last' = IF <<s.status, s.idToken>> = session THEN "profile" ELSE "none"
    /\ UNCHANGED <<message, chatMessages, isLoading, requests, origin, unhandled,
                   mounted, props, view, isOpen>>

\* Home is unmounted (navigation to another page); the pending promises stay.
unmount ==
    /\ mounted
    /\ mounted' = FALSE
    /\ last' = "none"
    /\ UNCHANGED <<status, idToken, message, chatMessages, isLoading, requests, origin,
                   unhandled, props, view, isOpen, user>>

\* onClick={() => setIsOpen(!isOpen)} of a section's header
toggle(sec) ==
    /\ isOpen' = [isOpen EXCEPT ![sec] = ~isOpen[sec]]
    /\ UNCHANGED <<status, idToken, message, chatMessages, isLoading, requests, origin,
                   unhandled, last, mounted, props, view, user>>

\* The events as the rendered controls let them happen.
typeDraft(d) == ~inputDisabled /\ onChange(d)
pressEnter == ~inputDisabled /\ handleSendMessage
clickSend == ~buttonDisabled /\ handleSendMessage

----------------------------------------------------------------------------
(* Specifications *)

Requests == 1..MaxSubmits

\* The handlers called in any state (the controls' disabled attributes not relied on).
Next ==
    \/ \E d \in Drafts : onChange(d)
    \/ handleSendMessage
    \/ \E i \in DOMAIN requests : fetchResolves(i)
    \/ \E i \in DOMAIN requests : fetchRejects(i)
    \/ \E i \in DOMAIN requests : jsonSettles(i)
    \/ sessionChanges

Spec == Init /\ [][Next]_vars

\* The handlers called only through the text input and the Send button.
NextUI ==
    \/ \E d \in Drafts : typeDraft(d)
    \/ pressEnter
    \/ clickSend
    \/ \E i \in DOMAIN requests : fetchResolves(i)
    \/ \E i \in DOMAIN requests : fetchRejects(i)
    \/ \E i \in DOMAIN requests : jsonSettles(i)
    \/ sessionChanges

SpecUI == Init /\ [][NextUI]_vars

\* Every backend call settles.
Settling ==
    \A i \in Requests :
        /\ WF_vars(i \in DOMAIN requests /\ (fetchResolves(i) \/ fetchRejects(i)))
        /\ WF_vars(i \in DOMAIN requests /\ jsonSettles(i))

SpecSettling == Init /\ [][Next]_vars /\ Settling

\* The page with its unmount: events reach a mounted component only, the awaits settle anyway.
NextUnmount ==
    \/ \E d \in Drafts : mounted /\ onChange(d)
    \/ mounted /\ handleSendMessage
    \/ \E i \in DOMAIN requests : fetchResolves(i)
    \/ \E i \in DOMAIN requests : fetchRejects(i)
    \/ \E i \in DOMAIN requests : jsonSettles(i)
    \/ mounted /\ sessionChanges
    \/ unmount

SpecUnmount == Init /\ [][NextUnmount]_vars

\* AgentFlowCard called on any props.
InitFlow ==
    /\ status = "loading"
    /\ idToken = NoToken
    /\ message = <<>>
    /\ chatMessages = <<>>
    /\ isLoading = FALSE
    /\ requests = <<>>
    /\ origin = <<>>
    /\ unhandled = FALSE
    /\ last = "none"
    /\ mounted = TRUE
    /\ props \in AllProps
    /\ view = NotRendered
    /\ isOpen = defaultOpen
    /\ user = NoUser

\* Variant: the component reports each evaluation to the backend.
renderAgentFlowCardReporting ==
    /\ view' = AgentFlowCard(props)
    /\ last' = IF view.rendered THEN "rerendered" ELSE "rendered"
    /\ requests' = IF Len(requests) < MaxSubmits
                   THEN Append(requests, [message |-> <<>>, token |-> NoToken,
                                          pc |-> "fetch", response |-> NoResponse])
                   ELSE requests
    /\ UNCHANGED <<status, idToken, message, chatMessages, isLoading, origin,
                   unhandled, mounted, props, isOpen, user>>

\* One evaluation of the function component: it has no hook, no effect and no fetch;
\* the parent may evaluate it again on the same props.
renderAgentFlowCard ==
    /\ view' = AgentFlowCard(props)
    /\ last' = IF view.rendered THEN "rerendered" ELSE "rendered"
    /\ UNCHANGED <<status, idToken, message, chatMessages, isLoading, requests, origin,
                   unhandled, mounted, props, isOpen, user>>

NextFlow == renderAgentFlowCard

SpecFlow == InitFlow /\ [][NextFlow]_vars

\* The handlers called in any state, under a session that carries a profile.
NextProfile ==
    \/ \E d \in Drafts : onChange(d)
    \/ handleSendMessage
    \/ \E i \in DOMAIN requests : fetchResolves(i)
    \/ \E i \in DOMAIN requests : fetchRejects(i)
    \/ \E i \in DOMAIN requests : jsonSettles(i)
    \/ sessionUpdates

SpecProfile == Init /\ [][NextProfile]_vars

\* The architecture page: its sections opened and closed.
NextArchitecture == \E sec \in Sections : toggle(sec)

SpecArchitecture == Init /\ [][NextArchitecture]_vars

TypeOK ==
    /\ <<status, idToken>> \in { <<s.status, s.idToken>> : s \in Sessions }
    /\ message \in Drafts
    /\ isLoading \in BOOLEAN
    /\ unhandled \in BOOLEAN
    /\ Len(requests) <= MaxSubmits
    /\ Len(origin) = Len(chatMessages)
    /\ last \in {"none", "rejected", "accepted", "replied", "failed", "rendered", "rerendered",
                "profile"}

----------------------------------------------------------------------------
(* Properties of the chat controller *)

InFlight == { i \in DOMAIN requests : requests[i].pc # "done" }

\* Request i's handler runs to its end in this step.
Settles(i) == requests[i].pc # "done" /\ requests'[i].pc = "done"

LastMessage == chatMessages[Len(chatMessages)]

Fallback == [role |-> "assistant", content |-> Str(FallbackText)]

\* C1: a submit made while the session carries no idToken appends no ChatMessage
\* and issues no request, whatever the draft; so every request issued carries a token.
C1_NoRequestWithoutCredential ==
    /\ [](\A i \in InFlight : requests[i].token # NoToken)
    /\ [][(handleSendMessage /\ idToken = NoToken)
            => (chatMessages' = chatMessages /\ requests' = requests)]_vars

\* A non-blank draft was submitted without a token and was rejected.
C1_Witness == last = "rejected" /\ idToken = NoToken /\ trim(message) # <<>>

\* C2: a submit whose draft is empty or only whitespace appends no ChatMessage
\* and issues no request, in every session state.
C2_BlankDraftIgnored ==
    [][(handleSendMessage /\ (\A k \in DOMAIN message : message[k] \in WhiteSpace))
         => (chatMessages' = chatMessages /\ requests' = requests)]_vars

\* A whitespace-only draft was submitted with a credential present and was rejected.
C2_Witness ==
    last = "rejected" /\ message = <<" ", " ">> /\ isAuthenticated /\ idToken # NoToken

\* C3: the user message of a submit is in the history as soon as its request is
\* issued, and precedes every assistant message produced by that request.
C3_UserBeforeReply ==
    \A i \in DOMAIN requests :
        \E k \in DOMAIN chatMessages :
            /\ origin[k] = i
            /\ chatMessages[k].role = "user"
            /\ \A j \in DOMAIN chatMessages :
                  (origin[j] = i /\ chatMessages[j].role = "assistant") => k < j

\* Two overlapping submits, the second answered first.
C3_Witness ==
    /\ Len(chatMessages) = 4
    /\ origin = <<1, 2, 2, 1>>
    /\ chatMessages[3].role = "assistant"

\* C4: when the call resolves with a body {content: c}, exactly the message
\* {assistant, c} is appended and pending is false afterwards.
C4_ReplyAppended ==
    [][\A i \in DOMAIN requests :
          (/\ Settles(i)
           /\ requests[i].pc = "json"
           /\ requests[i].response.body.kind = "object"
           /\ requests[i].response.body.content.type = "string")
          => (/\ chatMessages' = Append(chatMessages,
                     [role |-> "assistant", content |-> requests[i].response.body.content])
              /\ isLoading' = FALSE)]_vars

\* A reply with content was appended and nothing is pending.
C4_Witness ==
    /\ last = "replied"
    /\ LastMessage = [role |-> "assistant", content |-> Str(<<"h", "i">>)]
    /\ ~isLoading

\* C5: when the call rejects or its body is not parseable, exactly the fixed
\* fallback message is appended and pending is false afterwards.
C5_FallbackAppended ==
    [][\A i \in DOMAIN requests :
          (/\ Settles(i)
           /\ (requests[i].pc = "fetch" \/ requests[i].response.body.kind = "invalid"))
          => (/\ chatMessages' = Append(chatMessages, Fallback)
              /\ isLoading' = FALSE)]_vars

\* A failed call was turned into the fallback message and nothing is pending.
C5_Witness == last = "failed" /\ LastMessage = Fallback /\ ~isLoading

\* C6: after an accepted submit, however the backend call settles, no exception
\* leaves the handler, the handler runs to its end and pending becomes false again.
C6_PendingCleared ==
    /\ [](~unhandled)
    /\ isLoading ~> ~isLoading
    /\ \A i \in Requests :
          (i \in DOMAIN requests) ~> (i \in DOMAIN requests /\ requests[i].pc = "done")

\* Two submits were accepted, one call failed last, and nothing is pending or unhandled.
C6_Witness ==
    /\ Len(requests) >= 2
    /\ InFlight = {}
    /\ last = "failed"
    /\ ~isLoading
    /\ ~unhandled

\* C7: through the controls alone at most one request is in flight, and while one
\* is in flight both controls are disabled.
C7_OneInFlight ==
    /\ Cardinality(InFlight) <= 1
    /\ InFlight # {} => (inputDisabled /\ buttonDisabled)

\* A second submit was accepted after the first request had settled.
C7_Witness ==
    /\ Len(requests) = 2
    /\ requests[1].pc = "done"
    /\ requests[2].pc # "done"
    /\ inputDisabled

\* C8 (as claimed): a response with an error status, or a malformed body, ends in
\* the fixed fallback message, not in a message built from the response body.
C8_ErrorStatusFallsBack ==
    [][\A i \in DOMAIN requests :
          (/\ Settles(i)
           /\ requests[i].pc = "json"
           /\ (\/ requests[i].response.status = "error"
               \/ requests[i].response.body.kind = "invalid"))
          => chatMessages' = Append(chatMessages, Fallback)]_vars

\* C9 (as claimed): every parseable body without a content field takes the success
\* path: a message with undefined content is appended, not the fallback.
C9_NoContentIsSuccess ==
    [][\A i \in DOMAIN requests :
          (/\ Settles(i)
           /\ requests[i].pc = "json"
           /\ requests[i].response.body.kind \in {"null", "object"}
           /\ requests[i].response.body.content = Undefined)
          => chatMessages' = Append(chatMessages,
                 [role |-> "assistant", content |-> Undefined])]_vars

\* C9 (amended): a parseable body other than null, without a content field, takes
\* the success path: a message with undefined content is appended, not the fallback.
C9_NonNullNoContentIsSuccess ==
    [][\A i \in DOMAIN requests :
          (/\ Settles(i)
           /\ requests[i].pc = "json"
           /\ requests[i].response.body.kind = "object"
           /\ requests[i].response.body.content = Undefined)
          => chatMessages' = Append(chatMessages,
                 [role |-> "assistant", content |-> Undefined])]_vars

\* A message with undefined content was appended on the success path.
C9_Witness ==
    /\ last = "replied"
    /\ LastMessage = [role |-> "assistant", content |-> Undefined]

\* C10: a rejected submit (blank draft or no credential) leaves messages, draft and
\* pending as they were.
C10_RejectedSubmitNoOp ==
    [][(/\ handleSendMessage
        /\ (trim(message) = <<>> \/ idToken = NoToken))
         => UNCHANGED <<message, chatMessages, isLoading>>]_vars

\* A non-empty draft was rejected while a request was pending.
C10_Witness ==
    /\ last = "rejected"
    /\ message # <<>>
    /\ isLoading
    /\ chatMessages # <<>>

\* c is s without its leading and trailing whitespace.
IsTrimOf(c, s) ==
    /\ c # <<>>
    /\ Head(c) \notin WhiteSpace
    /\ c[Len(c)] \notin WhiteSpace
    /\ \E i \in 1..Len(s) :
          /\ i + Len(c) - 1 <= Len(s)
          /\ SubSeq(s, i, i + Len(c) - 1) = c
          /\ \A k \in 1..Len(s) : (k < i \/ k > i + Len(c) - 1) => s[k] \in WhiteSpace

UserMessages == { k \in DOMAIN chatMessages : chatMessages[k].role = "user" }

\* C11: an accepted submit appends one user message holding the trimmed draft, empties the
\* draft, sets pending and issues one request; requests issued = user messages in the history.
C11_AcceptedSubmitEffect ==
    /\ [](Len(requests) = Cardinality(UserMessages))
    /\ [][(handleSendMessage /\ idToken # NoToken
             /\ \E k \in DOMAIN message : message[k] \notin WhiteSpace)
            => (/\ Len(chatMessages') = Len(chatMessages) + 1
                /\ SubSeq(chatMessages', 1, Len(chatMessages)) = chatMessages
                /\ chatMessages'[Len(chatMessages')].role = "user"
                /\ chatMessages'[Len(chatMessages')].content.type = "string"
                /\ IsTrimOf(chatMessages'[Len(chatMessages')].content.val, message)
                /\ message' = <<>>
                /\ isLoading' = TRUE
                /\ Len(requests') = Len(requests) + 1)]_vars

\* A draft with surrounding whitespace was accepted as the second submit.
C11_Witness ==
    /\ last = "accepted"
    /\ Len(requests) = 2
    /\ LastMessage = [role |-> "user", content |-> Str(<<"a", " ", "b">>)]
    /\ message = <<>>
    /\ isLoading

\* C12: every request carries as body message the content of the user message its submit
\* appended (the trimmed draft) and as credential the idToken present at that submit,
\* and keeps both until it settles.
C12_RequestCarriesMessageAndToken ==
    /\ [](\A i \in InFlight :
             /\ requests[i].token # NoToken
             /\ \E k \in UserMessages :
                   origin[k] = i /\ chatMessages[k].content = Str(requests[i].message))
    /\ [][\A i \in DOMAIN requests' :
             IF i \in DOMAIN requests
             THEN requests'[i].pc # "done"
                    => (/\ requests'[i].message = requests[i].message
                        /\ requests'[i].token = requests[i].token)
             ELSE /\ requests'[i].token = idToken
                  /\ IsTrimOf(requests'[i].message, message)]_vars

\* A request is in flight with the token of its submit while the session has lost it.
C12_Witness ==
    \E i \in InFlight :
        /\ requests[i].token = "tokA"
        /\ requests[i].message = <<"a", " ", "b">>
        /\ idToken = NoToken

\* C13 (as claimed): once Home is unmounted, a settling request writes neither the
\* history nor pending.
C13_NoWriteAfterUnmount ==
    [][~mounted => UNCHANGED <<chatMessages, isLoading>>]_vars

\* C14: the history is append-only: over every step the old history is a prefix of the new.
C14_AppendOnly ==
    [][/\ Len(chatMessages) <= Len(chatMessages')
       /\ SubSeq(chatMessages', 1, Len(chatMessages)) = chatMessages]_vars

\* A submit was appended to a history that already held a settled exchange.
C14_Witness ==
    /\ last = "accepted"
    /\ Len(chatMessages) >= 3
    /\ chatMessages[2].role = "assistant"

\* A call of handleSendMessage that shows: a request issued, or a rejection recorded.
SubmitSeen == Len(requests') > Len(requests) \/ (last' = "rejected" /\ last # "rejected")

\* C15: while the session is not authenticated or a request is pending, the input and
\* the Send button are disabled, and no submit comes from the controls.
C15_ControlsDisabled ==
    /\ []((~isAuthenticated \/ isLoading) => (inputDisabled /\ buttonDisabled))
    /\ [][(~isAuthenticated \/ isLoading) => ~SubmitSeen]_vars

\* A non-blank draft sits behind disabled controls: the session ended after it was typed.
C15_Witness ==
    /\ ~isAuthenticated
    /\ trim(message) # <<>>
    /\ inputDisabled
    /\ buttonDisabled

\* C16: whenever pending is true the history is non-empty, so "Thinking..." is shown.
C16_ThinkingShownWhilePending == isLoading => thinkingShown

\* The first submit is pending and the indicator is rendered under its user message.
C16_Witness == isLoading /\ Len(chatMessages) = 1 /\ thinkingShown

\* C25: with submits coming from the controls only, the history alternates user,
\* assistant, user, ... from a user message on, the two messages of submit n are at
\* 2n-1 and 2n, and the length of the history is odd exactly when pending is true.
C25_Alternation ==
    /\ \A k \in DOMAIN chatMessages :
          /\ chatMessages[k].role = IF k % 2 = 1 THEN "user" ELSE "assistant"
          /\ origin[k] = (k + 1) \div 2
    /\ (Len(chatMessages) % 2 = 1) <=> isLoading

\* The second submit is pending after a first exchange that ended in the fallback.
C25_Witness ==
    /\ Len(chatMessages) = 3
    /\ chatMessages[2] = Fallback
    /\ chatMessages[3].role = "user"
    /\ isLoading
    /\ last = "accepted"

\* C26: a submit with a non-blank draft and a credential made while pending is true is
\* accepted, so its request overlaps the pending one; each settling request appends its
\* assistant message at the end, so the replies stand in the order of settlement.
C26_OverlapInSettleOrder ==
    /\ [][(handleSendMessage /\ isLoading /\ trim(message) # <<>> /\ idToken # NoToken)
            => (/\ Len(requests') = Len(requests) + 1
                /\ requests'[Len(requests')].pc = "fetch"
                /\ chatMessages'[Len(chatMessages')].role = "user"
                /\ InFlight # {} => \E i \in InFlight : requests'[i].pc # "done")]_vars
    /\ [][\A i \in DOMAIN requests :
             Settles(i)
             => (/\ Len(chatMessages') = Len(chatMessages) + 1
                 /\ SubSeq(chatMessages', 1, Len(chatMessages)) = chatMessages
                 /\ chatMessages'[Len(chatMessages')].role = "assistant"
                 /\ origin' = Append(origin, i))]_vars

\* Two overlapping requests have settled, the second first: the reply to the second user
\* message stands before the fallback for the first.
C26_Witness ==
    /\ InFlight = {}
    /\ origin = <<1, 2, 2, 1>>
    /\ chatMessages[1].role = "user"
    /\ chatMessages[2].role = "user"
    /\ chatMessages[3] = [role |-> "assistant", content |-> Str(<<"h", "i">>)]
    /\ chatMessages[4] = Fallback

OvertakenBy(i) ==
    { k \in DOMAIN chatMessages :
        /\ chatMessages[k].role = "assistant"
        /\ origin[k] # i
        /\ \E u \in UserMessages : origin[u] = i /\ u < k }

Outcomes ==
    {Thrown} \cup { [thrown |-> FALSE, content |-> b.content] : b \in Bodies }

\* C28: the profile of the session does not reach the chat controller. Over a change of
\* the profile under the same status and idToken, the draft, the history, pending and the
\* requests stay as they are, and what a submit and what a settlement would do to them
\* is the same before and after; only the displayed e-mail follows the profile.
C28_ProfileNotRead ==
    [][(user' # user /\ status' = status /\ idToken' = idToken)
         => (/\ UNCHANGED <<message, chatMessages, isLoading, requests>>
             /\ submitSync(message, idToken, chatMessages, isLoading)'
                  = submitSync(message, idToken, chatMessages, isLoading)
             /\ \A o \in Outcomes :
                   settle(o, chatMessages, isLoading)' = settle(o, chatMessages, isLoading)
             /\ inputDisabled' = inputDisabled
             /\ buttonDisabled' = buttonDisabled)]_vars

\* The profile changed under the same token, with a request in flight and a draft typed.
C28_Witness ==
    /\ last = "profile"
    /\ idToken = "tokA"
    /\ shownEmail = "mike.manager@progear.demo"
    /\ InFlight # {}
    /\ trim(message) # <<>>

\* The session is signed out or has lost its credential.
SignedOut == ~isAuthenticated \/ idToken = NoToken

\* The assistant messages request i has appended.
Replies(i) ==
    { k \in DOMAIN chatMessages : chatMessages[k].role = "assistant" /\ origin[k] = i }

\* C29: a request in flight is not affected by the session ending: it still settles, its
\* settlement appends its one assistant message (reply or fallback) and sets pending to
\* false as under a live session, and pending does return to false.
C29_SettlesAfterSignOut ==
    /\ [][\A i \in DOMAIN requests :
             (Settles(i) /\ SignedOut)
             => (/\ Len(chatMessages') = Len(chatMessages) + 1
                 /\ chatMessages'[Len(chatMessages')] =
                       assistantMessage(
                         IF requests[i].pc = "json" /\ ~tryBody(requests[i].response).thrown
                         THEN requests[i].response.body.content
                         ELSE Str(FallbackText))
                 /\ origin' = Append(origin, i)
                 /\ isLoading' = FALSE)]_vars
    /\ \A i \in Requests :
          (i \in InFlight /\ SignedOut)
            ~> (i \in DOMAIN requests /\ requests[i].pc = "done"
                /\ Cardinality(Replies(i)) = 1 /\ ~isLoading)

\* The session ended while the only request was pending; the reply was appended all the
\* same and nothing is pending.
C29_Witness ==
    /\ status = "unauthenticated"
    /\ last = "replied"
    /\ Len(requests) = 1
    /\ Replies(1) = {2}
    /\ chatMessages[2] = [role |-> "assistant", content |-> Str(<<"h", "i">>)]
    /\ ~isLoading

----------------------------------------------------------------------------
(* Properties of AgentFlowCard *)

\* The least index of a set of indices, 0 when it is empty.
First(at) == IF at = {} THEN 0 ELSE CHOOSE i \in at : \A j \in at : i <= j

\* Index of the first step of the props with this name, 0 when there is none.
FirstNamed(name) == First({ i \in DOMAIN props.steps : props.steps[i].step = name })

Involved == { view.involvedAgents[k] : k \in DOMAIN view.involvedAgents }

Routers == { i \in DOMAIN props.steps : props.steps[i].step = ROUTER }

\* Index of the first router step with a non-empty list, and of the first with a list.
FirstRouterNonEmpty ==
    First({ i \in Routers : props.steps[i].agents.defined /\ props.steps[i].agents.list # <<>> })
FirstRouterWithList == First({ i \in Routers : props.steps[i].agents.defined })

\* C18 (as claimed): the involved participants are those of the first router step that
\* carries a non-empty list, none when there is no such step; a router step with an
\* empty list does not hide a later one with a non-empty list.
C18_InvolvedFromNonEmptyRouter ==
    view.rendered =>
        view.involvedAgents =
            IF FirstRouterNonEmpty = 0 THEN <<>>
            ELSE props.steps[FirstRouterNonEmpty].agents.list

\* C18 (amended): the involved participants are those of the first router step that
\* carries a list, empty or not, none when no router step carries a list; a router
\* step with an empty list hides a later one with a non-empty list.
C18_InvolvedFromFirstRouterList ==
    view.rendered =>
        view.involvedAgents =
            IF FirstRouterWithList = 0 THEN <<>>
            ELSE props.steps[FirstRouterWithList].agents.list

\* A router step without a list is passed over, and one with an empty list hides the next.
C18_Witness ==
    /\ view.rendered
    /\ props.steps = << Step(ROUTER, "completed", NoAgents),
                        Step(ROUTER, "completed", AgentList(<<>>)),
                        Step(ROUTER, "completed", AgentList(<<SALES, INVENTORY>>)) >>
    /\ view.involvedAgents = <<>>
    /\ view.agents[SALES].status = "inactive"

\* How an inactive participant is drawn.
InactiveBox(a) ==
    [status |-> "inactive", class |-> MutedClass, backgroundColor |-> NoColor,
     glyphs |-> <<agentIcons[a]>>]

\* C19 (as claimed): a participant step whose status is none of the four (the empty
\* string included) is drawn as an inactive participant: same glyph, muted, no colour.
C19_UnknownStatusDrawnInactive ==
    view.rendered =>
        \A a \in Agents :
            (/\ FirstNamed(agentStepName(a)) # 0
             /\ props.steps[FirstNamed(agentStepName(a))].status \notin Statuses)
            => (/\ view.agents[a].class = InactiveBox(a).class
                /\ view.agents[a].backgroundColor = InactiveBox(a).backgroundColor
                /\ view.agents[a].glyphs = InactiveBox(a).glyphs)

\* C20: the response stage is drawn completed exactly when the sequence holds a
\* generate_response step with status completed, and muted otherwise.
C20_ResponseStage ==
    view.rendered =>
        /\ view.response \in {CompletedClass, MutedClass}
        /\ view.response = CompletedClass
             <=> \E i \in DOMAIN props.steps :
                    /\ props.steps[i].step = GENERATE_RESPONSE
                    /\ props.steps[i].status = "completed"

\* A pending generate_response step alone leaves the stage muted.
C20_Witness ==
    /\ view.rendered
    /\ props.steps = << Step(ROUTER, "completed", AgentList(<<PRICING>>)),
                        Step(GENERATE_RESPONSE, "pending", NoAgents) >>
    /\ view.response = MutedClass

Ignored(s) ==
    /\ ~includes(s.step, AGENT)
    /\ s.step # ROUTER
    /\ s.step # GENERATE_RESPONSE

\* steps without its element i
Without(steps, i) == SubSeq(steps, 1, i - 1) \o SubSeq(steps, i + 1, Len(steps))

\* The statuses and the response stage are those rendered from these steps.
SameStages(steps) ==
    LET v == AgentFlowCard([steps |-> steps, isLoading |-> props.isLoading])
    IN  /\ \A a \in Agents : v.agents[a].status = view.agents[a].status
        /\ v.response = view.response

\* C22: steps whose name neither contains "agent" nor is router or generate_response are
\* ignored: with any one of them taken out, or all of them, every participant status and
\* the response stage are the same (so also with such steps put in).
C22_OtherStepsIgnored ==
    view.rendered =>
        /\ \A i \in DOMAIN props.steps :
              Ignored(props.steps[i]) => SameStages(Without(props.steps, i))
        /\ LET kept(s) == ~Ignored(s) IN SameStages(SelectSeq(props.steps, kept))

\* Token exchange steps, one of them with a participant list, around the router step.
C22_Witness ==
    /\ view.rendered
    /\ props.steps = << Step(EXCHANGE_TOKEN, "denied", AgentList(<<PRICING>>)),
                        Step(ROUTER, "completed", AgentList(<<SALES, INVENTORY>>)),
                        Step(EXCHANGE_TOKEN, "completed", NoAgents) >>
    /\ view.agents[SALES].status = "pending"
    /\ view.agents[PRICING].status = "inactive"
    /\ view.response = MutedClass

\* C24: for each of the four statuses the box of a participant shows exactly one glyph, and
\* glyph and colour follow from the resolved status: completed the checkmark, denied the
\* cross, pending the clock, each on the participant's colour; inactive the participant's
\* letter on no participant colour.
C24_GlyphAndColour ==
    view.rendered =>
        \A a \in Agents :
            LET box == view.agents[a]
            IN  box.status \in Statuses =>
                    /\ Len(box.glyphs) = 1
                    /\ box.glyphs[1] =
                          CASE box.status = "completed" -> "CheckCircle"
                            [] box.status = "denied" -> "XCircle"
                            [] box.status = "pending" -> "Clock"
                            [] box.status = "inactive" -> agentIcons[a]
                    /\ box.backgroundColor =
                          IF box.status = "inactive" THEN NoColor ELSE agentColors[a]
                    /\ (box.class = MutedClass) <=> (box.status = "inactive")

\* One render with a participant in each of the four statuses.
C24_Witness ==
    /\ view.rendered
    /\ view.agents[SALES].status = "completed"
    /\ view.agents[SALES].glyphs = <<"CheckCircle">>
    /\ view.agents[INVENTORY].status = "denied"
    /\ view.agents[INVENTORY].glyphs = <<"XCircle">>
    /\ view.agents[PRICING].status = "pending"
    /\ view.agents[PRICING].backgroundColor = "#f59e0b"
    /\ view.agents[CUSTOMER].status = "inactive"
    /\ view.agents[CUSTOMER].glyphs = <<"C">>
    /\ view.agents[CUSTOMER].backgroundColor = NoColor

\* The steps of participant a after its first one.
LaterSteps(a) ==
    { j \in DOMAIN props.steps :
        /\ props.steps[j].step = agentStepName(a)
        /\ j > FirstNamed(agentStepName(a)) }

\* C30: of several steps named "<p>_agent" the first decides the status of p: it is that
\* step's status (pending or inactive by involvement when that status is empty), and it
\* is the same with any later step of that name taken out.
C30_FirstStepWins ==
    view.rendered =>
        \A a \in Agents :
            LaterSteps(a) # {} =>
                LET first == props.steps[FirstNamed(agentStepName(a))]
                IN  /\ first.status # "" => view.agents[a].status = first.status
                    /\ first.status = ""
                         => view.agents[a].status
                              = IF a \in Involved THEN "pending" ELSE "inactive"
                    /\ \A j \in LaterSteps(a) :
                          AgentFlowCard([steps |-> Without(props.steps, j),
                                         isLoading |-> props.isLoading]).agents[a]
                            = view.agents[a]

\* A pending sales step followed by a completed one: sales is drawn pending.
C30_Witness ==
    /\ view.rendered
    /\ props.steps = << Step(agentStepName(SALES), "pending", NoAgents),
                        Step(agentStepName(SALES), "completed", NoAgents) >>
    /\ view.agents[SALES].status = "pending"
    /\ view.agents[SALES].glyphs = <<"Clock">>

----------------------------------------------------------------------------
(* Properties of the sample access data *)

MikeShown == { c \in shownCards(isOpen) : c.card.name = GuideMike.name }

\* C23 (as claimed): wherever the page shows Mike Manager's granted scopes they agree
\* with the guide: inventory scopes granted, pricing:read and pricing:margin denied.
C23_MikeInventoryOnly ==
    \A c \in MikeShown :
        \A sc \in Scopes : c.card.granted[sc] = GuideMike.access[scopeDomain[sc]]

====
